---- MODULE Spec2Model ----
(***************************************************************************)
(* Model of clients::http::Request / Request::RequestImpl                  *)
(* (core/src/clients/http/request.cpp): the fluent builder calls that set  *)
(* the retry configuration and the PUT payload, async_perform, the         *)
(* completion handlers on_completed / on_retry, the retry timer callback   *)
(* on_retry_timer, the PUT read callback, the header callback and Cancel.  *)
(*                                                                         *)
(* The transfer engine (curl::easy) and the reactor timer are not part of  *)
(* the sources; they appear only through their contract: a submitted       *)
(* transfer invokes its handler once, cancel() aborts the transfer that is *)
(* in flight, a single-shot timer fires its callback once.                 *)
(***************************************************************************)
EXTENDS Integers, Sequences, FiniteSets, TLC

\* ------------------------------------------------------------- bounds

\* Largest argument of Request::retry that is explored besides the
\* arguments that do not fit a short.
MaxRetries == 8
\* rand() returns a value in 0 .. MaxRand.
MaxRand == 33
\* Longest PUT payload and largest buffer capacity of one read callback.
MaxPayload == 2
MaxCap == 2
\* Longest header line handed to on_header by HeaderSpec.
MaxLineLen == 6
\* Largest per-attempt timeout (ms) given to Request::timeout.
MaxTimeout == 3

\* ---------------------------------------------------- program constants

kMaxRetryInTimeout == 5
kEBBaseTime == 25
kLeastBadHttpCodeForEB == 500

\* --------------------------------------------------------- value sets

\* std::error_code values delivered to the handlers.
OK == "ok"
ErrTransport == "transport"
ErrCancelled == "cancelled"
ErrTimer == "timer"

\* Response codes the engine reports for a transfer without error.
Statuses == {200, 499, 500, 503}

\* Arguments of Request::retry(int, bool): the small ones, and ints that a
\* short cannot hold.
RetryArgs == (-1 .. MaxRetries) \cup {32768, 65536, 65538}

\* Bytes of a header line.
CR == "CR"
LF == "LF"
SP == "SP"
NUL == "NUL"
COLON == ":"
Bytes == {"K", "V", COLON, SP, CR, LF}

\* Bytes of a PUT payload.
PayloadBytes == {"a", "b"}

\* put_method_cursor == nullptr
NullCursor == -1

\* The task thread calls the builder methods, async_perform and Cancel;
\* the reactor thread runs the callbacks of the engine and of the timer.
TaskThread == "task"
ReactorThread == "reactor"

SeqsUpTo(S, n) == UNION {[1 .. k -> S] : k \in 0 .. n}

Min(a, b) == IF a <= b THEN a ELSE b

RECURSIVE Pow2(_)
Pow2(k) == IF k <= 0 THEN 1 ELSE 2 * Pow2(k - 1)

\* Conversion of an int to the 16-bit short that retry_.retries is.
ToShort(n) == ((n + 32768) % 65536) - 32768

\* ------------------------------------------------------ pure functions

\* rfind_not_space(ptr, size): the offset just past the last byte of
\* ptr[0 .. size-1] that is not '\n', '\r' or ' '; 0 when there is none.
\* mem[p] is the byte at offset p - 1.
RECURSIVE rfind_from(_, _)
rfind_from(mem, p) ==
    IF p < 1 THEN 0
    ELSE IF mem[p] \in {LF, CR, SP} THEN rfind_from(mem, p - 1)
    ELSE p

rfind_not_space(mem, size) == rfind_from(mem, size)

\* strchr(ptr, ch): the index of the first ch in the NUL-terminated string
\* at the start of mem, 0 (nullptr) when the NUL comes first.
RECURSIVE strchr_from(_, _, _)
strchr_from(mem, i, ch) ==
    IF i > Len(mem) THEN 0
    ELSE IF mem[i] = ch THEN i
    ELSE IF mem[i] = NUL THEN 0
    ELSE strchr_from(mem, i + 1, ch)

strchr(mem, ch) == strchr_from(mem, 1, ch)

\* Value of the header: the bytes after the colon up to end.
header_value(mem, col_pos, end) == SubSeq(mem, col_pos + 1, end)

\* parse_header(ptr, size) on the memory mem, whose first size bytes are the
\* line.  The result is the memory after the call and the entry stored in
\* the header map (<<>> when the call returns without storing).
parse_header(mem, size) ==
    LET end == rfind_not_space(mem, size) IN
    IF end = 0 THEN [mem |-> mem, entry |-> <<>>]
    ELSE LET mem2 == [mem EXCEPT ![end + 1] = NUL]
             col_pos == strchr(mem2, COLON)
         IN IF col_pos = 0 THEN [mem |-> mem2, entry |-> <<>>]
            ELSE [mem |-> mem2,
                  entry |-> <<SubSeq(mem2, 1, col_pos - 1),
                              header_value(mem2, col_pos, end)>>]

\* headers()[key] = value on a map kept as a set of <<key, value>> pairs.
StoreHeader(map, entry) ==
    IF entry = <<>> THEN map
    ELSE {e \in map : e[1] # entry[1]} \cup {entry}

\* max_retry_time(number): the loop for (i = 1; i < number; ++i).
RECURSIVE max_retry_time_from(_, _)
max_retry_time_from(i, number) ==
    IF i >= number THEN 0
    ELSE kEBBaseTime * (Pow2(Min(i - 1, kMaxRetryInTimeout)) + 1)
         + max_retry_time_from(i + 1, number)

\* max_retry_time that leaves out the last backoff: i < number - 1.
max_retry_time_one_short(number) == max_retry_time_from(1, number - 1)

max_retry_time(number) == max_retry_time_from(1, number)

\* complete_timeout that rounds the product up instead of truncating it.
complete_timeout_rounding_up(request_timeout, n) ==
    ((11 * request_timeout * n) + 9) \div 10 + max_retry_time(n)

\* complete_timeout(request_timeout, retries):
\* static_cast<long>(request_timeout * 1.1 * retries + max_retry_time).
\* The double product of the two integers and 1.1 lies within 1e-9 of
\* 11 * request_timeout * retries / 10 and is never below it when that is
\* an integer, so the truncation gives the integer quotient.
complete_timeout(request_timeout, n) ==
    (11 * request_timeout * n) \div 10 + max_retry_time(n)

\* backoff_ms with the window of the next attempt: the shift is by cur, not
\* by cur - 1.
backoff_ms_next_window(cur, r) ==
    kEBBaseTime * ((r % Pow2(Min(cur, kMaxRetryInTimeout))) + 1)

\* The delay before the retry that follows attempt number cur, r = rand().
backoff_ms(cur, r) ==
    kEBBaseTime * ((r % Pow2(Min(cur - 1, kMaxRetryInTimeout))) + 1)

\* not_need_retry that does not look at the attempts used.
not_need_retry_ignoring_count(err, code, cur, max, fails) ==
    \/ (err = OK /\ code < kLeastBadHttpCodeForEB)
    \/ (err # OK /\ ~fails)

\* not_need_retry that lets one attempt more through: > for >=.
not_need_retry_one_more(err, code, cur, max, fails) ==
    \/ (err = OK /\ code < kLeastBadHttpCodeForEB)
    \/ (cur > max)
    \/ (err # OK /\ ~fails)

\* not_need_retry of on_retry.
not_need_retry(err, code, cur, max, fails) ==
    \/ (err = OK /\ code < kLeastBadHttpCodeForEB)
    \/ (cur >= max)
    \/ (err # OK /\ ~fails)

\* -------------------------------------------------------------- state

VARIABLES
    \* RequestImpl
    retries,                    \* retry_.retries (short)
    current,                    \* retry_.current (short)
    on_fails,                   \* retry_.on_fails
    timer,                      \* retry_.timer is non-null
    put_method_data,            \* the PUT payload
    put_method_cursor,          \* offset of the cursor in it, or NullCursor
    put_method_rest_data_size,
    response_,                  \* 0: null; k: the Response made by the k-th
                                \* perform_request
    headers,                    \* header map of that Response
    span_,                      \* span_ holds a Span
    promise_,                   \* [sets: calls of set_value/set_exception,
                                \*  result: what the future holds]
    stats_,                     \* calls received by the RequestStats sink
    \* transfer engine and reactor timer
    read_function,              \* PutMethodReadCallback is installed
    handler,                    \* completion handler of the transfer in
                                \* flight, "none" when there is none
    abort_requested,            \* cancel() reached the transfer in flight
    performs,                   \* calls of easy().async_perform
    response_code,              \* easy().get_response_code()
    timer_armed,                \* the single-shot timer has yet to fire
    timeout_ms,                 \* delay it was armed with
    \* what happened, for stating the properties
    submitted,                  \* async_perform was called
    first_read,                 \* feeder state at the first read callback
                                \* of the attempt, <<>> before it
    last_read,                  \* the last read callback of the attempt:
                                \* bytes returned before it, capacity,
                                \* bytes returned by it
    sent,                       \* bytes the read callbacks of the attempt
                                \* returned
    caps,                       \* sum of the capacities they offered
    cancel_inflight,            \* Cancel() was called with a transfer in flight
    cancel_backoff,             \* Cancel() was called with the timer armed
    hdr_line,                   \* last line handed to on_header
    hdr_mem,                    \* the engine's memory after that call
    timeout_ms_,                \* RequestImpl::timeout_ms_
    future_timeout,             \* timeout of the ResponseFuture, -1 before
                                \* Request::async_perform
    retry_args,                 \* arguments of the last Request::retry
    last_err,                   \* error the last transfer completed with
    timer_err,                  \* error the last timer callback got
    completions,                \* completion handlers the engine invoked
    hdr_from,                   \* attempts whose header callbacks stored
                                \* into the header map of response_
    clock,                      \* ms since submission (DeadlineSpec)
    clock_ticked,               \* the attempt in flight, or the armed
                                \* timer, has been given its duration
    thread                      \* the thread that ran the last step

impl_vars == <<retries, current, on_fails, timer, put_method_data,
               put_method_cursor, put_method_rest_data_size, response_,
               headers, span_, promise_, stats_>>
engine_vars == <<read_function, handler, abort_requested, performs,
                 response_code, timer_armed, timeout_ms>>
hist_vars == <<submitted, first_read, last_read, sent, caps,
               cancel_inflight, cancel_backoff, hdr_line, hdr_mem>>
obs_vars == <<timeout_ms_, future_timeout, retry_args, last_err,
              timer_err, completions, hdr_from, clock, clock_ticked>>
vars == <<impl_vars, engine_vars, hist_vars, obs_vars, thread>>

put_vars == <<put_method_data, put_method_cursor, put_method_rest_data_size>>
read_hist == <<first_read, last_read, sent, caps>>
hdr_hist == <<hdr_line, hdr_mem>>
cancel_hist == <<cancel_inflight, cancel_backoff>>

\* The states of the lifecycle, read off the fields.
Configuring == ~submitted
InFlight == handler # "none"
Backoff == timer_armed
Resolved == promise_.sets > 0

\* State after Request::Request: retry_ {1, 1, false, null}, no payload, no
\* Response, no span, the promise unset.
Init ==
    /\ retries = 1
    /\ current = 1
    /\ on_fails = FALSE
    /\ timer = FALSE
    /\ put_method_data = <<>>
    /\ put_method_cursor = NullCursor
    /\ put_method_rest_data_size = 0
    /\ response_ = 0
    /\ headers = {}
    /\ span_ = FALSE
    /\ promise_ = [sets |-> 0, result |-> <<"none">>]
    /\ stats_ = [Start |-> 0, FinishOk |-> 0, FinishEc |-> 0]
    /\ read_function = FALSE
    /\ handler = "none"
    /\ abort_requested = FALSE
    /\ performs = 0
    /\ response_code = 0
    /\ timer_armed = FALSE
    /\ timeout_ms = 0
    /\ submitted = FALSE
    /\ first_read = <<>>
    /\ last_read = <<>>
    /\ sent = <<>>
    /\ caps = 0
    /\ cancel_inflight = FALSE
    /\ cancel_backoff = FALSE
    /\ hdr_line = <<>>
    /\ hdr_mem = <<>>
    /\ timeout_ms_ = 0
    /\ future_timeout = -1
    /\ retry_args = <<>>
    /\ last_err = OK
    /\ timer_err = OK
    /\ completions = 0
    /\ hdr_from = {}
    /\ clock = 0
    /\ clock_ticked = FALSE
    /\ thread = TaskThread

\* ------------------------------------------------------------ builder

\* Request::retry(n, fails) and RequestImpl::retry.
retry(n, fails) ==
    /\ thread' = TaskThread
    /\ Configuring
    /\ retries' = ToShort(IF n <= 0 THEN 1 ELSE n)
    /\ current' = 1
    /\ on_fails' = fails
    /\ retry_args' = <<n, fails>>
    /\ UNCHANGED <<timer, put_vars, response_, headers, span_, promise_,
                   stats_, engine_vars, hist_vars, timeout_ms_,
                   future_timeout, last_err, timer_err, completions,
                   hdr_from, clock, clock_ticked>>

\* Request::timeout(t) and RequestImpl::set_timeout.
set_timeout(t) ==
    /\ thread' = TaskThread
    /\ Configuring
    /\ timeout_ms_' = t
    /\ UNCHANGED <<impl_vars, engine_vars, hist_vars, future_timeout,
                   retry_args, last_err, timer_err, completions, hdr_from,
                   clock, clock_ticked>>

\* Request::put(url, data): SetPutMethodData and set_read_function.
put(data) ==
    /\ thread' = TaskThread
    /\ Configuring
    /\ put_method_data' = data
    /\ put_method_cursor' = NullCursor
    /\ put_method_rest_data_size' = 0
    /\ read_function' = TRUE
    /\ UNCHANGED <<retries, current, on_fails, timer, response_, headers,
                   span_, promise_, stats_, handler, abort_requested,
                   performs, response_code, timer_armed, timeout_ms,
                   hist_vars, obs_vars>>

\* ------------------------------------------------------- request core

\* perform_request that leaves the header map of the previous attempt in
\* the Response it hands to the engine.
perform_request_keeping_headers(h) ==
    /\ response_' = performs + 1
    /\ headers' = headers
    /\ performs' = performs + 1
    /\ handler' = h
    /\ abort_requested' = FALSE
    /\ response_code' = 0
    /\ first_read' = <<>>
    /\ last_read' = <<>>
    /\ sent' = <<>>
    /\ caps' = 0
    /\ hdr_from' = hdr_from
    /\ clock_ticked' = FALSE

\* perform_request that creates a Response for the first attempt only.
perform_request_reusing_response(h) ==
    /\ response_' = (IF performs = 0 THEN 1 ELSE response_)
    /\ headers' = (IF performs = 0 THEN {} ELSE headers)
    /\ performs' = performs + 1
    /\ handler' = h
    /\ abort_requested' = FALSE
    /\ response_code' = 0
    /\ first_read' = <<>>
    /\ last_read' = <<>>
    /\ sent' = <<>>
    /\ caps' = 0
    /\ hdr_from' = (IF performs = 0 THEN {} ELSE hdr_from)
    /\ clock_ticked' = FALSE

\* perform_request(h): a fresh Response, and the transfer is submitted with
\* completion handler h.
perform_request(h) ==
    /\ response_' = performs + 1
    /\ headers' = {}
    /\ performs' = performs + 1
    /\ handler' = h
    /\ abort_requested' = FALSE
    /\ response_code' = 0
    /\ first_read' = <<>>
    /\ last_read' = <<>>
    /\ sent' = <<>>
    /\ caps' = 0
    /\ hdr_from' = {}
    /\ clock_ticked' = FALSE

\* Request::async_perform and RequestImpl::async_perform.
async_perform ==
    /\ thread' = TaskThread
    /\ Configuring
    /\ submitted' = TRUE
    /\ span_' = TRUE
    /\ stats_' = [stats_ EXCEPT !.Start = @ + 1]
    /\ perform_request(IF retries <= 1 THEN "on_completed" ELSE "on_retry")
    /\ future_timeout' = complete_timeout(timeout_ms_, retries)
    /\ UNCHANGED <<retries, current, on_fails, timer, put_vars, promise_,
                   read_function, timer_armed, timeout_ms, cancel_hist,
                   hdr_hist, timeout_ms_, retry_args, last_err, timer_err,
                   completions, clock>>

\* One Finish call of the statistics sink.
Finish(st, err) ==
    IF err # OK THEN [st EXCEPT !.FinishEc = @ + 1]
    ELSE [st EXCEPT !.FinishOk = @ + 1]

\* on_completed that keeps the span after it resolved the promise.
on_completed_keeping_span(err, st) ==
    /\ span_
    /\ stats_' = Finish(st, err)
    /\ IF err # OK
       THEN /\ promise_' = [sets |-> promise_.sets + 1,
                            result |-> <<"exception", err>>]
            /\ response_' = response_
       ELSE /\ promise_' = [sets |-> promise_.sets + 1,
                            result |-> <<"value", response_, response_code'>>]
            /\ response_' = 0
    /\ span_' = span_

\* on_completed(holder, err), entered with the sink in state st.
on_completed(err, st) ==
    /\ span_
    /\ stats_' = Finish(st, err)
    /\ IF err # OK
       THEN /\ promise_' = [sets |-> promise_.sets + 1,
                            result |-> <<"exception", err>>]
            /\ response_' = response_
       ELSE /\ promise_' = [sets |-> promise_.sets + 1,
                            result |-> <<"value", response_, response_code'>>]
            /\ response_' = 0
    /\ span_' = FALSE

\* on_retry(holder, err); r is the value rand() returns.
on_retry(err) ==
    /\ span_
    /\ LET st == Finish(stats_, err) IN
       IF not_need_retry(err, response_code', current, retries, on_fails)
       THEN /\ on_completed(err, st)
            /\ UNCHANGED <<current, timer, timer_armed, timeout_ms,
                           clock_ticked>>
       ELSE /\ stats_' = st
            /\ clock_ticked' = FALSE
            /\ \E r \in 0 .. MaxRand : timeout_ms' = backoff_ms(current, r)
            /\ current' = current + 1
            /\ timer' = TRUE
            /\ timer_armed' = TRUE
            /\ UNCHANGED <<response_, span_, promise_>>

\* The engine invokes the completion handler of the transfer in flight with
\* err and, when err is success, response code code.  An aborted transfer
\* completes with the cancellation error.
Complete(err, code) ==
    /\ thread' = ReactorThread
    /\ InFlight
    /\ IF abort_requested THEN err = ErrCancelled ELSE err # ErrCancelled
    /\ handler' = "none"
    /\ abort_requested' = FALSE
    /\ response_code' = IF err = OK THEN code ELSE 0
    /\ last_err' = err
    /\ completions' = completions + 1
    /\ IF handler = "on_completed"
       THEN /\ on_completed(err, stats_)
            /\ UNCHANGED <<current, timer, timer_armed, timeout_ms,
                           clock_ticked>>
       ELSE on_retry(err)
    /\ UNCHANGED <<retries, on_fails, put_vars, headers, read_function,
                   performs, submitted, read_hist, cancel_hist, hdr_hist,
                   timeout_ms_, future_timeout, retry_args, timer_err,
                   hdr_from, clock>>

\* on_retry_timer that drops a timer error instead of completing with it.
on_retry_timer_dropping(err) ==
    /\ thread' = ReactorThread
    /\ timer_armed
    /\ timer_armed' = FALSE
    /\ timeout_ms' = 0
    /\ timer_err' = err
    /\ IF err = OK
       THEN /\ perform_request("on_retry")
            /\ UNCHANGED <<span_, promise_, stats_>>
       ELSE /\ UNCHANGED <<response_, span_, promise_, stats_>>
            /\ UNCHANGED <<headers, performs, handler, abort_requested,
                           response_code, read_hist, hdr_from,
                           clock_ticked>>
    /\ UNCHANGED <<retries, current, on_fails, timer, put_vars,
                   read_function, submitted, cancel_hist, hdr_hist,
                   timeout_ms_, future_timeout, retry_args, last_err,
                   completions, clock>>

\* on_retry_timer that starts the next attempt whatever the timer reports.
on_retry_timer_ignoring(err) ==
    /\ thread' = ReactorThread
    /\ timer_armed
    /\ timer_armed' = FALSE
    /\ timeout_ms' = 0
    /\ timer_err' = err
    /\ IF TRUE
       THEN /\ perform_request("on_retry")
            /\ UNCHANGED <<span_, promise_, stats_>>
       ELSE /\ on_completed(err, stats_)
            /\ UNCHANGED <<headers, performs, handler, abort_requested,
                           response_code, read_hist, hdr_from,
                           clock_ticked>>
    /\ UNCHANGED <<retries, current, on_fails, timer, put_vars,
                   read_function, submitted, cancel_hist, hdr_hist,
                   timeout_ms_, future_timeout, retry_args, last_err,
                   completions, clock>>

\* on_retry_timer of a timer that stays armed after it fired.
on_retry_timer_repeating(err) ==
    /\ thread' = ReactorThread
    /\ timer_armed
    /\ timer_armed' = TRUE
    /\ timeout_ms' = 0
    /\ timer_err' = err
    /\ IF err = OK
       THEN /\ perform_request("on_retry")
            /\ UNCHANGED <<span_, promise_, stats_>>
       ELSE /\ on_completed(err, stats_)
            /\ UNCHANGED <<headers, performs, handler, abort_requested,
                           response_code, read_hist, hdr_from,
                           clock_ticked>>
    /\ UNCHANGED <<retries, current, on_fails, timer, put_vars,
                   read_function, submitted, cancel_hist, hdr_hist,
                   timeout_ms_, future_timeout, retry_args, last_err,
                   completions, clock>>

\* on_retry_timer(err): the single-shot timer fires.
on_retry_timer(err) ==
    /\ thread' = ReactorThread
    /\ timer_armed
    /\ timer_armed' = FALSE
    /\ timeout_ms' = 0
    /\ timer_err' = err
    /\ IF err = OK
       THEN /\ perform_request("on_retry")
            /\ UNCHANGED <<span_, promise_, stats_>>
       ELSE /\ on_completed(err, stats_)
            /\ UNCHANGED <<headers, performs, handler, abort_requested,
                           response_code, read_hist, hdr_from,
                           clock_ticked>>
    /\ UNCHANGED <<retries, current, on_fails, timer, put_vars,
                   read_function, submitted, cancel_hist, hdr_hist,
                   timeout_ms_, future_timeout, retry_args, last_err,
                   completions, clock>>

\* RequestImpl::Cancel: easy().cancel() aborts the transfer in flight, if
\* there is one; the retry timer is not touched.
Cancel ==
    /\ thread' = TaskThread
    /\ abort_requested' = (abort_requested \/ InFlight)
    /\ cancel_inflight' = (cancel_inflight \/ InFlight)
    /\ cancel_backoff' = (cancel_backoff \/ Backoff)
    /\ UNCHANGED <<impl_vars, read_function, handler, performs,
                   response_code, timer_armed, timeout_ms, submitted,
                   read_hist, hdr_hist, obs_vars>>

\* PutMethodReadCallback with a buffer of cap bytes.
PutMethodReadCallback(cap) ==
    /\ thread' = ReactorThread
    /\ InFlight
    /\ read_function
    /\ LET cursor == IF put_method_cursor = NullCursor
                     THEN 0 ELSE put_method_cursor
           rest == IF put_method_cursor = NullCursor
                   THEN Len(put_method_data) ELSE put_method_rest_data_size
           bytes_to_copy == Min(rest, cap)
       IN /\ put_method_cursor' = cursor + bytes_to_copy
          /\ put_method_rest_data_size' = rest - bytes_to_copy
          /\ sent' = sent \o SubSeq(put_method_data, cursor + 1,
                                    cursor + bytes_to_copy)
          /\ caps' = Min(caps + cap, MaxPayload + MaxCap)
          /\ first_read' = IF first_read = <<>>
                           THEN <<cursor, rest>> ELSE first_read
          /\ last_read' = <<Len(sent), cap, bytes_to_copy>>
    /\ UNCHANGED <<retries, current, on_fails, timer, put_method_data,
                   response_, headers, span_, promise_, stats_,
                   engine_vars, submitted, cancel_hist, hdr_hist, obs_vars>>

\* on_header(ptr, size, nmemb, userdata): parse_header on the line; after is
\* the byte that follows the line in the engine's memory.
on_header(line, after) ==
    /\ thread' = ReactorThread
    /\ InFlight
    /\ response_ # 0
    /\ LET res == parse_header(line \o <<after>>, Len(line)) IN
       /\ headers' = StoreHeader(headers, res.entry)
       /\ hdr_mem' = res.mem
       /\ hdr_from' = IF res.entry = <<>> THEN hdr_from
                       ELSE hdr_from \cup {performs}
    /\ hdr_line' = line
    /\ UNCHANGED <<retries, current, on_fails, timer, put_vars, response_,
                   span_, promise_, stats_, engine_vars, submitted,
                   read_hist, cancel_hist, timeout_ms_, future_timeout,
                   retry_args, last_err, timer_err, completions, clock,
                   clock_ticked>>

\* Time passes: the attempt in flight lasts d ms, at most the per-attempt
\* timeout, or the armed timer waits the delay it was armed with.
Tick(d) ==
    /\ UNCHANGED thread
    /\ ~clock_ticked
    /\ \/ InFlight /\ d <= timeout_ms_
       \/ Backoff /\ d = timeout_ms
    /\ clock' = clock + d
    /\ clock_ticked' = TRUE
    /\ UNCHANGED <<impl_vars, engine_vars, hist_vars, timeout_ms_,
                   future_timeout, retry_args, last_err, timer_err,
                   completions, hdr_from>>

\* ------------------------------------------------------ specifications

\* The lifecycle of a Request: configuration of the retries, submission,
\* completions, retry timer and cancellation.
Next ==
    \/ \E n \in RetryArgs, fails \in BOOLEAN : retry(n, fails)
    \/ async_perform
    \/ \E err \in {OK, ErrTransport, ErrCancelled}, code \in Statuses :
          Complete(err, code)
    \/ \E err \in {OK, ErrTimer} : on_retry_timer(err)
    \/ Cancel

Spec == Init /\ [][Next]_vars

\* A PUT Request with retries: the payload, the attempts and the read
\* callbacks of each attempt.
MaxPutRetries == 2

PutNext ==
    \/ \E n \in 1 .. MaxPutRetries, fails \in BOOLEAN : retry(n, fails)
    \/ \E data \in SeqsUpTo(PayloadBytes, MaxPayload) : put(data)
    \/ async_perform
    \/ \E err \in {OK, ErrTransport}, code \in {200, 503} :
          Complete(err, code)
    \/ on_retry_timer(OK)
    \/ \E cap \in 1 .. MaxCap : PutMethodReadCallback(cap)

PutSpec == Init /\ [][PutNext]_vars

\* The header callback: the first header line of the first attempt of a
\* Request, every line of at most MaxLineLen bytes.
HeaderNext ==
    \/ async_perform
    \/ /\ hdr_mem = <<>>
       /\ \E line \in SeqsUpTo(Bytes, MaxLineLen) : on_header(line, "X")

HeaderSpec == Init /\ [][HeaderNext]_vars

\* The aggregate deadline: the per-attempt timeout, the retries, and the
\* time the attempts and the backoff timers take.
Timeouts == 0 .. MaxTimeout

\* The draws of rand() DeadlineSpec follows: the one giving the shortest
\* and the one giving the longest delay of every backoff window.
ExtremeDraws == {0, Pow2(kMaxRetryInTimeout) - 1}

DeadlineNext ==
    \/ \E t \in Timeouts : set_timeout(t)
    \/ \E n \in 1 .. MaxRetries : retry(n, FALSE)
    \/ async_perform
    \/ \E err \in {OK, ErrTransport}, code \in {200, 503} :
          /\ Complete(err, code)
          /\ timer_armed' =>
                \E r \in ExtremeDraws : timeout_ms' = backoff_ms(current, r)
    \/ on_retry_timer(OK)
    \/ \E d \in {0, timeout_ms_, timeout_ms} : Tick(d)

DeadlineSpec == Init /\ [][DeadlineNext]_vars

\* Header lines the engine delivers in CallbackSpec.
EngineLines ==
    { <<"K", COLON, "V", CR, LF>>,
      <<"K", COLON, "K", CR, LF>>,
      <<CR, LF>> }

\* The callbacks of the attempts of a Request with retries: header
\* callbacks, completions, retry timer, cancellation.
CallbackNext ==
    \/ \E n \in 1 .. MaxPutRetries, fails \in BOOLEAN : retry(n, fails)
    \/ async_perform
    \/ \E line \in EngineLines : on_header(line, "X")
    \/ \E err \in {OK, ErrTransport, ErrCancelled}, code \in {200, 503} :
          Complete(err, code)
    \/ \E err \in {OK, ErrTimer} : on_retry_timer(err)
    \/ Cancel

CallbackSpec == Init /\ [][CallbackNext]_vars

\* The lifecycle under the engine and timer contracts: the completion
\* handler of a submitted transfer is invoked, an armed single-shot timer
\* fires.
EngineCompletes ==
    \E err \in {OK, ErrTransport, ErrCancelled}, code \in Statuses :
        Complete(err, code)

TimerFires == \E err \in {OK, ErrTimer} : on_retry_timer(err)

LiveSpec ==
    /\ Init
    /\ [][Next]_vars
    /\ WF_vars(EngineCompletes)
    /\ WF_vars(TimerFires)

\* ------------------------------------------------------------- claims

\* C1: the promise of a submitted Request is resolved exactly once:
\* set_value / set_exception is never executed twice, it has been executed
\* once when no transfer is in flight and no timer is armed any more, and
\* nothing is left to run after it.
C1_SingleResolution ==
    /\ promise_.sets <= 1
    /\ (submitted /\ ~InFlight /\ ~Backoff) => promise_.sets = 1
    /\ promise_.sets = 1 => (~InFlight /\ ~Backoff)

\* A Request resolved with an exception after a retry.
C1_Witness ==
    /\ promise_.sets = 1
    /\ performs >= 2
    /\ promise_.result[1] = "exception"

\* C2: in every state of a submitted Request attempts_used is at least 1
\* and at most attempts_configured, and the number of transfers submitted
\* is at least 1 and at most attempts_used.
C2_AttemptsBounded ==
    submitted =>
        /\ 1 <= current
        /\ current <= retries
        /\ 1 <= performs
        /\ performs <= current

\* C3: a completion schedules the next attempt (arms the timer, the promise
\* staying unset) exactly when attempts_used < attempts_configured and
\* either it carries an error and on_transport_failure is true or it
\* carries no error and the status is >= 500; every other completion
\* resolves the promise and arms no timer; nothing else arms the timer.
C3_RetryIff ==
    [][ /\ (timer_armed' /\ ~timer_armed) => (InFlight /\ ~InFlight')
        /\ (InFlight /\ ~InFlight') =>
             LET failed == stats_'.FinishEc > stats_.FinishEc
                 again == /\ current < retries
                          /\ \/ (failed /\ on_fails)
                             \/ (~failed /\ response_code' >= 500)
             IN /\ again => /\ timer_armed'
                            /\ current' = current + 1
                            /\ promise_' = promise_
                /\ ~again => /\ ~timer_armed'
                             /\ current' = current
                             /\ promise_'.sets = promise_.sets + 1
      ]_vars

\* A retry is scheduled after a transport error.
C3_Witness ==
    /\ Backoff
    /\ on_fails
    /\ stats_.FinishEc = 1
    /\ stats_.FinishOk = 0

\* C4: when the Request is resolved the statistics sink has received one
\* Finish call (FinishOk or FinishEc) per attempt.
C4_OneFinishPerAttempt ==
    Resolved => stats_.FinishOk + stats_.FinishEc = performs

\* C5: the completion of a transfer that Cancel() aborted resolves the
\* future with the cancellation error, whatever the retry configuration:
\* the error is not answered by a retry.
C5_CancelResolvesCancelled ==
    [][ (InFlight /\ abort_requested /\ ~InFlight') =>
            /\ promise_'.sets = 1
            /\ promise_'.result = <<"exception", ErrCancelled>>
            /\ ~timer_armed'
      ]_vars

\* C6: after a Cancel() called during Backoff no transfer is submitted.
C6_NoAttemptAfterBackoffCancel ==
    [][cancel_backoff => performs' = performs]_vars

\* C7: the first read callback of every attempt starts from offset 0 with
\* the whole payload remaining.
C7_CursorResetEachAttempt ==
    first_read # <<>> => first_read = <<0, Len(put_method_data)>>

\* C8: within one attempt every read callback returns
\* min(remaining, capacity) bytes, where remaining is the payload size less
\* what the attempt has returned before, and once the capacities offered
\* sum to the payload size the chunks returned make up the payload.
C8_PutCompleteness ==
    last_read # <<>> =>
        /\ last_read[3] =
               Min(Len(put_method_data) - last_read[1], last_read[2])
        /\ caps >= Len(put_method_data) => sent = put_method_data

\* A header line `K: V\r\n`: K not empty, without ':', space, CR or LF; V
\* not empty, with neither CR nor LF and with no space at either end.
IsKeyValueLine(line) ==
    LET n == Len(line)
        c == strchr_from(line, 1, COLON)
    IN /\ c > 1
       /\ \A i \in 1 .. (c - 1) : line[i] \notin {SP, CR, LF}
       /\ n >= c + 4
       /\ line[c + 1] = SP
       /\ line[n - 1] = CR
       /\ line[n] = LF
       /\ line[c + 2] \notin {SP, CR, LF}
       /\ line[n - 2] \notin {SP, CR, LF}
       /\ \A i \in (c + 2) .. (n - 2) : line[i] \notin {CR, LF}

KeyOf(line) == SubSeq(line, 1, strchr_from(line, 1, COLON) - 1)
ValueOf(line) ==
    SubSeq(line, strchr_from(line, 1, COLON) + 2, Len(line) - 2)

\* C9: after on_header on a line `K: V\r\n` the header map holds exactly
\* (K, V); after a line without ':' or a line of CR, LF and spaces only it
\* holds nothing.
C9_HeaderRoundTrip ==
    hdr_mem # <<>> =>
        /\ IsKeyValueLine(hdr_line) =>
               headers = {<<KeyOf(hdr_line), ValueOf(hdr_line)>>}
        /\ (\A i \in 1 .. Len(hdr_line) : hdr_line[i] # COLON) =>
               headers = {}
        /\ (\A i \in 1 .. Len(hdr_line) : hdr_line[i] \in {CR, LF, SP}) =>
               headers = {}

\* C10: the delay of the timer armed after i attempts is a multiple of 25
\* in [25, 25 * (2^min(i-1, 5) + 1)].
C10_BackoffRange ==
    timer_armed =>
        LET i == current - 1 IN
        /\ timeout_ms % 25 = 0
        /\ 25 <= timeout_ms
        /\ timeout_ms <= 25 * (Pow2(Min(i - 1, 5)) + 1)

\* The largest delay of the capped window, after seven attempts.
C10_Witness ==
    /\ timer_armed
    /\ current - 1 = 7
    /\ timeout_ms = 800


\* The sum over i = 1..n-1 of 25 * (2^min(i-1, 5) + 1), as the claims
\* state it.
RECURSIVE BackoffAllowance(_)
BackoffAllowance(n) ==
    IF n <= 1 THEN 0
    ELSE BackoffAllowance(n - 1)
         + 25 * (2 ^ (IF n - 2 < 5 THEN n - 2 ELSE 5) + 1)

\* A request submitted with per-attempt timeout t >= 0 and n >= 1
\* configured attempts.
DeadlineConfigured == submitted /\ timeout_ms_ >= 0 /\ retries >= 1

\* C11 as stated: the overall timeout of the ResponseFuture is
\* ceil(t * 1.1 * n + sum); the sum is an integer, so this is
\* ceil(11 * t * n / 10) + sum.
C11_OverallTimeoutCeil ==
    DeadlineConfigured =>
        LET whole == future_timeout - BackoffAllowance(retries)
        IN /\ 10 * (whole - 1) < 11 * timeout_ms_ * retries
           /\ 11 * timeout_ms_ * retries <= 10 * whole

\* C11 amended: the overall timeout of the ResponseFuture is
\* t * 1.1 * n + sum truncated toward zero, floor(11 * t * n / 10) + sum.
C11_OverallTimeoutTruncated ==
    DeadlineConfigured =>
        LET whole == future_timeout - BackoffAllowance(retries)
        IN /\ 10 * whole <= 11 * timeout_ms_ * retries
           /\ 11 * timeout_ms_ * retries < 10 * (whole + 1)

\* t = 1, n = 3: 3.3 + 50 + 75 truncates to 128.
C11_Witness ==
    submitted /\ timeout_ms_ = 1 /\ retries = 3 /\ future_timeout = 128

\* C12: with every attempt lasting at most t ms and every backoff delay
\* one the retry loop draws, the time from submission through all
\* attempts and backoffs never exceeds complete_timeout(t, n).
C12_DeadlineBoundsRetrySequence ==
    DeadlineConfigured => clock <= complete_timeout(timeout_ms_, retries)

\* All configured attempts were used, at least seven of them, and the
\* backoffs took at least twice the longest delay of the capped window.
C12_Witness ==
    /\ Resolved
    /\ retries >= 7
    /\ performs = retries
    /\ clock >= 2 * kEBBaseTime * Pow2(kMaxRetryInTimeout)

\* C13 as stated: after Request::retry(n, on_fails) the configured
\* maximum is max(n, 1) >= 1, attempts_used is 1 and
\* on_transport_failure is on_fails.
C13_RetryStoresClampedArgument ==
    (Configuring /\ retry_args # <<>>) =>
        /\ retries = (IF retry_args[1] >= 1 THEN retry_args[1] ELSE 1)
        /\ retries >= 1
        /\ current = 1
        /\ on_fails = retry_args[2]

\* C14 as stated: the final attempt alone decides the outcome: completed
\* without transport error, the future holds the Response created for it
\* with the headers of that attempt only; ended with a transport error,
\* the future holds an exception of that error.
C14_FinalAttemptDecides ==
    Resolved =>
        IF last_err = OK
        THEN /\ promise_.result = <<"value", performs, response_code>>
             /\ hdr_from \subseteq {performs}
        ELSE promise_.result = <<"exception", last_err>>

\* C14 amended: the final attempt decides the outcome unless the retry
\* timer reported an error; then the future holds an exception of the
\* timer's error.
C14_FinalAttemptOrTimerDecides ==
    Resolved =>
        IF timer_err # OK
        THEN promise_.result = <<"exception", timer_err>>
        ELSE IF last_err = OK
        THEN /\ promise_.result = <<"value", performs, response_code>>
             /\ hdr_from \subseteq {performs}
        ELSE promise_.result = <<"exception", last_err>>

\* Resolved with the value of a second attempt that received headers.
C14_Witness ==
    /\ Resolved
    /\ performs >= 2
    /\ timer_err = OK
    /\ last_err = OK
    /\ hdr_from = {performs}
    /\ promise_.result[1] = "value"

\* C15: the span exists from submission until the promise is resolved,
\* through every attempt and backoff, and is released on the step that
\* resolves the promise and on no other.
C15_SpanUntilResolution ==
    /\ [](/\ (submitted /\ ~Resolved) => span_
          /\ (InFlight \/ Backoff) => span_
          /\ Resolved => ~span_)
    /\ [][(span_ /\ ~span_') => (~Resolved /\ Resolved')]_vars

\* The span was released at the resolution that ended a second attempt.
C15_Witness == Resolved /\ ~span_ /\ performs >= 2 /\ promise_.sets = 1

\* C16 as stated: parse_header reads and writes offsets 0 .. size-1 only,
\* so the byte the engine keeps after the line is left as it was.
C16_ParseHeaderStaysInBounds ==
    hdr_mem # <<>> => hdr_mem[Len(hdr_line) + 1] = "X"

\* C17: while an attempt is in flight response_ is non-null and is the
\* Response perform_request created for that attempt.
C17_ResponseOfAttemptInFlight ==
    InFlight => (response_ # 0 /\ response_ = performs)

\* A second attempt is in flight after a header callback stored into it.
C17_Witness == InFlight /\ performs >= 2 /\ hdr_from = {performs}

\* C18 as stated: retry_.timer is non-null only in Backoff.
C18_TimerOnlyInBackoff == timer => Backoff

\* C19: at most one transfer is in flight; a header callback that stores
\* into the Response comes before the completion of its attempt; an
\* attempt after the first is submitted only on the step the timer fires,
\* after every earlier attempt completed.
C19_OneTransferAtATime ==
    /\ [](/\ performs - completions \in {0, 1}
          /\ InFlight <=> (performs = completions + 1))
    /\ [][/\ (performs' # performs) =>
                /\ performs' = performs + 1
                /\ completions = performs
                /\ ~InFlight
                /\ performs >= 1 => (timer_armed /\ ~timer_armed')
          /\ (hdr_from' # hdr_from /\ performs' = performs) =>
                /\ InFlight
                /\ completions = performs - 1
                /\ hdr_from' = {performs}]_vars

\* The second attempt is in flight, after the first completed.
C19_Witness == InFlight /\ performs = 2 /\ completions = 1

\* C20: a timer callback with an error resolves the promise with an
\* exception of that error; no attempt is in flight or pending after it,
\* also when attempts remain.
C20_TimerErrorResolves ==
    timer_err # OK =>
        /\ promise_.sets = 1
        /\ promise_.result = <<"exception", timer_err>>
        /\ ~InFlight
        /\ ~Backoff
        /\ performs = completions

\* The timer failed after the first of at least three configured attempts.
C20_Witness ==
    /\ timer_err = ErrTimer
    /\ Resolved
    /\ performs = 1
    /\ retries >= 3

\* C21: with every submitted completion handler invoked and every armed
\* timer fired, a submitted Request is eventually Resolved; every entry
\* into Backoff increases attempts_used by one and keeps it within
\* attempts_configured.
C21_EventuallyResolved ==
    /\ submitted ~> Resolved
    /\ [][(timer_armed' /\ ~timer_armed) =>
            (current' = current + 1 /\ current' <= retries)]_vars

\* Resolved after the retry loop used all of at least three attempts.
C21_Witness ==
    Resolved /\ performs >= 3 /\ current = retries /\ performs = current

\* C22 as stated: attempts_used, the timer, the Response pointer, the PUT
\* cursor and the span are written by the reactor thread only: no step of
\* the task thread changes any of them.
C22_ReactorThreadOnlyWrites ==
    [][(thread' = TaskThread) =>
         UNCHANGED <<current, timer, response_, put_method_cursor,
                     span_>>]_vars

====
